---- MODULE Spec2Model ----
(***************************************************************************)
(* Model of the Portfolio Tracker backend (src/backend/app.py,             *)
(* src/backend/models.py): the live-price proxy with its in-memory TTL     *)
(* cache, the chat proxy with its ChatHistory log, and the portfolio /     *)
(* allocation / transaction store with the analytics aggregator.           *)
(*                                                                         *)
(* Conventions.  Python None is PyNone for objects and NoTime for a        *)
(* datetime.  Time is counted in whole seconds since process start.  A     *)
(* JSON object is a function from its keys, a JSON array a sequence.       *)
(* Percent changes are carried in hundredths (0.25 is 25).  Every request  *)
(* handler is one action, the server handling one request at a time; the   *)
(* threaded server is modelled apart, for GET /api/prices, one statement   *)
(* that touches the shared cache per step.                                 *)
(***************************************************************************)
EXTENDS Integers, Sequences, FiniteSets, TLC

VARIABLES now, cache, priceResp, priceObs, threads, slotWriter,
          chatHistory, chatResp, chatObs,
          portfolios, allocations, transactions, dbResp, dbObs

vars == <<now, cache, priceResp, priceObs, threads, slotWriter, chatHistory, chatResp, chatObs,
          portfolios, allocations, transactions, dbResp, dbObs>>

threadVars == <<threads, slotWriter>>
priceVars == <<cache, priceResp, priceObs, threads, slotWriter>>
chatVars == <<chatHistory, chatResp, chatObs>>
dbVars == <<portfolios, allocations, transactions, dbResp, dbObs>>

(***************************************************************************)
(* Bounds of the model.                                                    *)
(***************************************************************************)
MaxNow == 35
MaxFetchDelay == 1
MaxChatRows == 4
MaxPortfolios == 2
MaxAllocs == 1
MaxTx == 3
MaxLedgers == 1

(***************************************************************************)
(* Python helpers.                                                         *)
(***************************************************************************)
PyNone == [none |-> TRUE]
NoTime == -1
EmptyDict == << >>

\* dict.get(k, default)
Get(d, k, default) == IF k \in DOMAIN d THEN d[k] ELSE default

(***************************************************************************)
(* LIVE PRICES                                                             *)
(***************************************************************************)
CACHE_TTL == 30
SP500_PRICE == 6000
SP500_CHANGE == 25

\* Bodies the price feed can answer with (status 200).  Body 0 is a body
\* that is not JSON: response.json() raises on it.
PriceBodies ==
  << [bitcoin |-> [usd |-> 100, usd_24h_change |-> 1],
      ethereum |-> [usd |-> 20, usd_24h_change |-> 2],
      solana |-> [usd |-> 3, usd_24h_change |-> 3]]
       @@ ("tether-gold" :> [usd |-> 40, usd_24h_change |-> 4]),
     [bitcoin |-> [usd |-> 101, usd_24h_change |-> 5],
      ethereum |-> [usd |-> 21]]
       @@ ("tether-gold" :> [usd_24h_change |-> 6]),
     EmptyDict >>

PriceOutcomes ==
  {[kind |-> "response", status |-> 200, body |-> b] : b \in 0..Len(PriceBodies)}
    \cup {[kind |-> "response", status |-> s, body |-> 0] : s \in {429, 503}}
    \cup {[kind |-> k, status |-> 0, body |-> 0] : k \in {"timeout", "connection_error"}}

\* app.py 326-349: the fixed schema built from the upstream body
Quote(data, coin) ==
  [price |-> Get(Get(data, coin, EmptyDict), "usd", 0),
   change_24h |-> Get(Get(data, coin, EmptyDict), "usd_24h_change", 0)]

BuildResult(data, t) ==
  [bitcoin |-> Quote(data, "bitcoin"),
   ethereum |-> Quote(data, "ethereum"),
   solana |-> Quote(data, "solana"),
   gold |-> Quote(data, "tether-gold"),
   sp500 |-> [price |-> SP500_PRICE, change_24h |-> SP500_CHANGE],
   timestamp |-> t,
   cached |-> FALSE]

\* the comparison with the TTL turned around
CacheFreshInverted(c, t) ==
  /\ c.data # PyNone
  /\ c.timestamp # NoTime
  /\ t - c.timestamp > CACHE_TTL

\* app.py 300-302: the cache is populated and younger than the TTL
CacheFresh(c, t) ==
  /\ c.data # PyNone
  /\ c.timestamp # NoTime
  /\ t - c.timestamp < CACHE_TTL

\* app.py 359-360 / 366-367: a copy of the cached payload marked cached
StaleCopy(data) == [data EXCEPT !.cached = TRUE]

\* the 429 branch answering as the other fallback branches do
RateLimitedResponseMarked(c) ==
  IF c.data # PyNone
    THEN [status |-> 200, body |-> StaleCopy(c.data)]
    ELSE [status |-> 429, body |-> [error |-> "Rate limited", cached |-> FALSE]]

\* app.py 317-321: upstream answered 429
RateLimitedResponse(c) ==
  IF c.data # PyNone
    THEN [status |-> 200, body |-> c.data]
    ELSE [status |-> 429, body |-> [error |-> "Rate limited", cached |-> FALSE]]

\* the timeout branch returning the cached payload without marking it
TimeoutResponseUnmarked(c) ==
  IF c.data # PyNone
    THEN [status |-> 200, body |-> c.data]
    ELSE [status |-> 504, body |-> [error |-> "Timeout fetching prices"]]

\* app.py 357-362: requests.exceptions.Timeout
TimeoutResponse(c) ==
  IF c.data # PyNone
    THEN [status |-> 200, body |-> StaleCopy(c.data)]
    ELSE [status |-> 504, body |-> [error |-> "Timeout fetching prices"]]

\* app.py 364-369: any other exception, str(e) is the detail
ErrorResponse(c, detail) ==
  IF c.data # PyNone
    THEN [status |-> 200, body |-> StaleCopy(c.data)]
    ELSE [status |-> 500, body |-> [error |-> detail]]

\* The exception, if any, that the fetch and the decoding of its answer raise
\* (app.py 307-324): "" when none is raised.
FetchException(o) ==
  CASE o.kind = "timeout" -> "Timeout"
    [] o.kind = "connection_error" -> "ConnectionError"
    [] o.kind = "response" /\ o.status = 429 -> ""
    [] o.kind = "response" /\ o.status # 200 -> "HTTPError"
    [] o.kind = "response" /\ o.status = 200 /\ o.body = 0 -> "JSONDecodeError"
    [] OTHER -> ""

\* the fallback branches marking the cached payload itself, not a copy of it
AfterFetchAliased(c, o, t) ==
  IF o.kind = "response" /\ o.status = 429
    THEN [cache |-> c, resp |-> RateLimitedResponse(c)]
  ELSE IF FetchException(o) = "Timeout"
    THEN [cache |-> IF c.data # PyNone THEN [c EXCEPT !.data = StaleCopy(c.data)] ELSE c,
          resp |-> TimeoutResponse(c)]
  ELSE IF FetchException(o) # ""
    THEN [cache |-> IF c.data # PyNone THEN [c EXCEPT !.data = StaleCopy(c.data)] ELSE c,
          resp |-> ErrorResponse(c, FetchException(o))]
  ELSE LET result == BuildResult(PriceBodies[o.body], t)
       IN  [cache |-> [data |-> result, timestamp |-> t],
            resp |-> [status |-> 200, body |-> result]]

\* a successful fetch that answers without storing its result
AfterFetchNoStore(c, o, t) ==
  IF o.kind = "response" /\ o.status = 429
    THEN [cache |-> c, resp |-> RateLimitedResponse(c)]
  ELSE IF FetchException(o) = "Timeout"
    THEN [cache |-> c, resp |-> TimeoutResponse(c)]
  ELSE IF FetchException(o) # ""
    THEN [cache |-> c, resp |-> ErrorResponse(c, FetchException(o))]
  ELSE [cache |-> c,
        resp |-> [status |-> 200, body |-> BuildResult(PriceBodies[o.body], t)]]

\* app.py 305-369: what a miss does once the upstream outcome o is known, at
\* time t: the new cache slot and the response
AfterFetch(c, o, t) ==
  IF o.kind = "response" /\ o.status = 429
    THEN [cache |-> c, resp |-> RateLimitedResponse(c)]
  ELSE IF FetchException(o) = "Timeout"
    THEN [cache |-> c, resp |-> TimeoutResponse(c)]
  ELSE IF FetchException(o) # ""
    THEN [cache |-> c, resp |-> ErrorResponse(c, FetchException(o))]
  ELSE LET result == BuildResult(PriceBodies[o.body], t)
       IN  [cache |-> [data |-> result, timestamp |-> t],
            resp |-> [status |-> 200, body |-> result]]

\* app.py 294-369: GET /api/prices.  The upstream call, when one is made,
\* takes d seconds.
GetLivePrices(o, d) ==
  /\ now + d <= MaxNow
  /\ IF CacheFresh(cache, now)
       THEN /\ priceResp' = [status |-> 200, body |-> cache.data]
            /\ priceObs' = [seq |-> 1 - priceObs.seq, fetched |-> 0,
                            fresh |-> TRUE, hadData |-> TRUE,
                            outcome |-> "none", ostatus |-> 0, obody |-> 0]
            /\ UNCHANGED <<now, cache>>
       ELSE LET r == AfterFetch(cache, o, now + d)
            IN  /\ cache' = r.cache
                /\ priceResp' = r.resp
                /\ priceObs' = [seq |-> 1 - priceObs.seq, fetched |-> 1,
                                fresh |-> FALSE, hadData |-> cache.data # PyNone,
                                outcome |-> o.kind, ostatus |-> o.status,
                                obody |-> o.body]
                /\ now' = now + d
  /\ UNCHANGED <<threadVars, chatVars, dbVars>>

\* the clock advances by one second
Tick ==
  /\ now < MaxNow
  /\ now' = now + 1
  /\ UNCHANGED <<priceVars, chatVars, dbVars>>

(***************************************************************************)
(* LIVE PRICES UNDER THE THREADED SERVER                                   *)
(* app.run (app.py 388) serves each request in a thread of its own, and    *)
(* get_live_prices takes no lock: the statements of two requests that read *)
(* or write _price_cache interleave.  slotWriter remembers which thread    *)
(* wrote each field of the slot last (0: nobody).                          *)
(***************************************************************************)
Threads == {1, 2}

IdleThread == [pc |-> "idle", result |-> PyNone, resp |-> [status |-> 0, body |-> PyNone]]

\* app.py 300: the request arrives and tests the two fields of the slot
TestSlot(r) ==
  /\ threads[r].pc = "idle"
  /\ threads' = [threads EXCEPT ![r].pc =
                   IF cache.data # PyNone /\ cache.timestamp # NoTime
                     THEN "L301" ELSE "L305"]
  /\ UNCHANGED <<now, cache, slotWriter, priceResp, priceObs, chatVars, dbVars>>

\* app.py 301-302: the age of the slot against the TTL
TestAge(r) ==
  /\ threads[r].pc = "L301"
  /\ threads' = [threads EXCEPT ![r].pc =
                   IF now - cache.timestamp < CACHE_TTL THEN "L303" ELSE "L305"]
  /\ UNCHANGED <<now, cache, slotWriter, priceResp, priceObs, chatVars, dbVars>>

\* app.py 303: the TTL hit answers with the payload in the slot
ReturnCached(r) ==
  /\ threads[r].pc = "L303"
  /\ threads' = [threads EXCEPT ![r] =
                   [pc |-> "idle", result |-> PyNone,
                    resp |-> [status |-> 200, body |-> cache.data]]]
  /\ UNCHANGED <<now, cache, slotWriter, priceResp, priceObs, chatVars, dbVars>>

\* app.py 305-349 and 357-369: the upstream call returns with outcome o; a
\* failure answers at once from the slot as it is now, a success builds its
\* result
Fetch(r, o) ==
  /\ threads[r].pc = "L305"
  /\ IF (o.kind = "response" /\ o.status = 429) \/ FetchException(o) # ""
       THEN threads' = [threads EXCEPT ![r] =
                          [pc |-> "idle", result |-> PyNone,
                           resp |-> AfterFetch(cache, o, now).resp]]
       ELSE threads' = [threads EXCEPT ![r] =
                          [pc |-> "L352", result |-> BuildResult(PriceBodies[o.body], now),
                           resp |-> [status |-> 0, body |-> PyNone]]]
  /\ UNCHANGED <<now, cache, slotWriter, priceResp, priceObs, chatVars, dbVars>>

\* app.py 352: _price_cache['data'] = result
StoreData(r) ==
  /\ threads[r].pc = "L352"
  /\ cache' = [cache EXCEPT !.data = threads[r].result]
  /\ slotWriter' = [slotWriter EXCEPT !.data = r]
  /\ threads' = [threads EXCEPT ![r].pc = "L353"]
  /\ UNCHANGED <<now, priceResp, priceObs, chatVars, dbVars>>

\* app.py 353-355: _price_cache['timestamp'] = datetime.utcnow(), and the
\* response is the result just built
StoreTimestamp(r) ==
  /\ threads[r].pc = "L353"
  /\ cache' = [cache EXCEPT !.timestamp = now]
  /\ slotWriter' = [slotWriter EXCEPT !.timestamp = r]
  /\ threads' = [threads EXCEPT ![r] =
                   [pc |-> "idle", result |-> PyNone,
                    resp |-> [status |-> 200, body |-> threads[r].result]]]
  /\ UNCHANGED <<now, priceResp, priceObs, chatVars, dbVars>>

\* the time-to-live goes by
Elapse ==
  /\ now + CACHE_TTL <= MaxNow
  /\ now' = now + CACHE_TTL
  /\ UNCHANGED <<priceVars, chatVars, dbVars>>

(***************************************************************************)
(* CHAT PROXY                                                              *)
(***************************************************************************)
PLACEHOLDER == "Sin respuesta"

\* JSON bodies of POST /api/chat.  Request 0 is a body that is not a JSON
\* object: request.get_json() or data.get raises on it.
ChatRequests ==
  << EmptyDict,
     [message |-> ""],
     [message |-> "hola"],
     [message |-> "hola", mode |-> "sovereign"],
     [message |-> "", mode |-> "sovereign"] >>

\* Bodies the generative API can answer with.  Body 0 is not JSON.
ChatBodies ==
  << [candidates |-> << [content |-> [parts |-> << [text |-> "r1"] >>]] >>],
     [candidates |-> << [content |-> [parts |-> << [text |-> "r1"], [text |-> "r2"] >>]],
                        [content |-> [parts |-> << [text |-> "r3"] >>]] >>],
     [promptFeedback |-> "blocked"],
     [candidates |-> << >>],
     [candidates |-> << [finishReason |-> "SAFETY"] >>],
     [candidates |-> << [content |-> [role |-> "model"]] >>],
     [candidates |-> << [content |-> [parts |-> << >>]] >>],
     [candidates |-> << [content |-> [parts |-> << [inlineData |-> "x"] >>]] >> ] >>

ChatOutcomes ==
  {[kind |-> "response", status |-> 200, body |-> b] : b \in 0..Len(ChatBodies)}
    \cup {[kind |-> "response", status |-> s, body |-> 0] : s \in {429, 500}}
    \cup {[kind |-> "connection_error", status |-> 0, body |-> 0]}

\* list[0]: raises IndexError on an empty list
First(list) ==
  IF Len(list) = 0 THEN [raised |-> TRUE, value |-> EmptyDict]
                   ELSE [raised |-> FALSE, value |-> list[1]]

\* app.py 93: result.get('candidates', [{}])[0].get('content', {})
\*              .get('parts', [{}])[0].get('text', 'Sin respuesta')
ExtractReply(result) ==
  LET cand == First(Get(result, "candidates", << EmptyDict >>))
  IN  IF cand.raised THEN [raised |-> TRUE, text |-> ""]
      ELSE LET part == First(Get(Get(cand.value, "content", EmptyDict),
                                 "parts", << EmptyDict >>))
           IN  IF part.raised THEN [raised |-> TRUE, text |-> ""]
               ELSE [raised |-> FALSE, text |-> Get(part.value, "text", PLACEHOLDER)]

\* models.py 96-104: a ChatHistory row; ids are handed out by the table
ChatRow(history, role, content, mode) ==
  [id |-> Len(history) + 1, role |-> role, content |-> content, mode |-> mode]

\* each row committed on its own: the user row survives a failed second commit
PersistExchangeSeparately(history, message, reply, mode, commitOk) ==
  LET withUser == Append(history, ChatRow(history, "user", message, mode))
  IN  IF commitOk
        THEN Append(withUser, ChatRow(withUser, "assistant", reply, mode))
        ELSE withUser

\* app.py 96-100: both rows are added to the session and committed together;
\* a failed commit leaves the table as it was
PersistExchange(history, message, reply, mode, commitOk) ==
  LET withUser == Append(history, ChatRow(history, "user", message, mode))
  IN  IF commitOk
        THEN Append(withUser, ChatRow(withUser, "assistant", reply, mode))
        ELSE history

\* app.py 62-108: the response and the table after a POST /api/chat with
\* request body r, upstream outcome up and commit outcome commitOk
ChatResult(history, key, r, up, commitOk, t) ==
  IF r = 0
    THEN [history |-> history, resp |-> [status |-> 500, body |-> [error |-> "BadRequest"]]]
  ELSE LET data == ChatRequests[r]
           user_message == Get(data, "message", "")
           mode == Get(data, "mode", "normie")
       IN
  IF user_message = ""
    THEN [history |-> history,
          resp |-> [status |-> 400, body |-> [error |-> "Message is required"]]]
  ELSE IF ~key
    THEN [history |-> history,
          resp |-> [status |-> 500, body |-> [error |-> "API key not configured"]]]
  ELSE IF up.kind # "response"
    THEN [history |-> history,
          resp |-> [status |-> 500, body |-> [error |-> "ConnectionError"]]]
  ELSE IF up.status # 200
    THEN [history |-> history,
          resp |-> [status |-> 500,
                    body |-> [error |-> "Gemini API error", details |-> up.status]]]
  ELSE IF up.body = 0
    THEN [history |-> history,
          resp |-> [status |-> 500, body |-> [error |-> "JSONDecodeError"]]]
  ELSE LET reply == ExtractReply(ChatBodies[up.body])
       IN
  IF reply.raised
    THEN [history |-> history,
          resp |-> [status |-> 500, body |-> [error |-> "list index out of range"]]]
  ELSE IF ~commitOk
    THEN [history |-> PersistExchange(history, user_message, reply.text, mode, FALSE),
          resp |-> [status |-> 500, body |-> [error |-> "OperationalError"]]]
  ELSE [history |-> PersistExchange(history, user_message, reply.text, mode, TRUE),
        resp |-> [status |-> 200, body |-> [response |-> reply.text, timestamp |-> t]]]

\* app.py 59-108: POST /api/chat; key tells whether os.getenv finds the
\* credential
ChatWithGemini(r, key, up, commitOk) ==
  /\ Len(chatHistory) + 2 <= MaxChatRows
  /\ LET res == ChatResult(chatHistory, key, r, up, commitOk, now)
     IN  /\ chatHistory' = res.history
         /\ chatResp' = res.resp
  /\ chatObs' = [seq |-> 1 - chatObs.seq, op |-> "chat", req |-> r, key |-> key,
                 kind |-> up.kind, ustatus |-> up.status, ubody |-> up.body,
                 commitOk |-> commitOk]
  /\ UNCHANGED <<now, priceVars, dbVars>>

\* app.py 118-123: DELETE /api/chat/history
ClearChatHistory ==
  /\ chatHistory' = << >>
  /\ chatResp' = [status |-> 200, body |-> [message |-> "Chat history cleared"]]
  /\ chatObs' = [seq |-> 1 - chatObs.seq, op |-> "clear", req |-> 0, key |-> TRUE,
                 kind |-> "none", ustatus |-> 0, ubody |-> 0, commitOk |-> TRUE]
  /\ UNCHANGED <<now, priceVars, dbVars>>

(***************************************************************************)
(* PORTFOLIOS, ALLOCATIONS, TRANSACTIONS                                   *)
(* A table is the set of its rows; every row has its own id.               *)
(***************************************************************************)
DEFAULT_NAME == "Mi Portfolio"

Ids(table) == {row.id : row \in table}

\* INTEGER PRIMARY KEY: the largest id in the table plus one
NextId(table) ==
  IF table = {} THEN 1
  ELSE (CHOOSE m \in Ids(table) : \A i \in Ids(table) : i <= m) + 1

\* every arrangement of a set of rows in a list
RECURSIVE Orders(_)
Orders(rows) ==
  IF rows = {} THEN {<< >>}
  ELSE UNION {{<<first>> \o rest : rest \in Orders(rows \ {first})} : first \in rows}

\* .all() on a query without ORDER BY: SQLite scans the table in rowid
\* order, and the rowid is the integer primary key
ScanOrder(rows) ==
  CHOOSE order \in Orders(rows) :
    \A i, j \in 1..Len(order) : i < j => order[i].id < order[j].id

\* Transaction.query.filter_by(portfolio_id=...)
TransactionsOf(table, pid) == {t \in table : t.portfolio_id = pid}

\* JSON bodies of POST /api/portfolios/<id>/transactions
TxRequests ==
  << [asset_name |-> "X", type |-> "buy", amount |-> 100, quantity |-> 4, date |-> 2],
     [asset_name |-> "X", amount |-> 50, date |-> 1],
     [asset_name |-> "X", type |-> "sell", amount |-> 30, quantity |-> 1, date |-> 3],
     [asset_name |-> "Y", type |-> "contribution", amount |-> 500, quantity |-> 9],
     [asset_name |-> "Y", type |-> "buy", amount |-> 7, quantity |-> 1, date |-> 1],
     [type |-> "buy", amount |-> 1] >>

\* app.py 220-229: the Transaction row built from the request body
NewTransaction(table, pid, data, t) ==
  [id |-> NextId(table),
   portfolio_id |-> pid,
   asset_name |-> Get(data, "asset_name", "None"),
   type |-> Get(data, "type", "buy"),
   amount |-> Get(data, "amount", 0),
   quantity |-> Get(data, "quantity", 0),
   date |-> Get(data, "date", t)]

\* app.py 156-163: the Allocation rows of a new portfolio, n of them
NewAllocations(table, pid, n) ==
  {[id |-> NextId(table) + k - 1, portfolio_id |-> pid,
    asset_name |-> IF k = 1 THEN "X" ELSE "Y", percentage |-> 50] : k \in 1..n}

\* app.py 137-167: POST /api/portfolios with n nested allocations; valid is
\* false when an allocation lacks a required column, which fails the second
\* commit after the portfolio itself has been committed
CreatePortfolio(n, valid) ==
  /\ NextId(portfolios) <= MaxPortfolios
  /\ LET id == NextId(portfolios)
     IN  /\ portfolios' = portfolios \cup {[id |-> id, name |-> DEFAULT_NAME]}
         /\ IF n > 0 /\ ~valid
              THEN /\ allocations' = allocations
                   /\ dbResp' = [status |-> 500, body |-> [error |-> "IntegrityError"]]
              ELSE /\ allocations' = allocations \cup NewAllocations(allocations, id, n)
                   /\ dbResp' = [status |-> 201,
                                 body |-> [id |-> id, name |-> DEFAULT_NAME,
                                           allocations |-> n, total_invested |-> 0,
                                           transaction_count |-> 0]]
         /\ dbObs' = [op |-> "create_portfolio", id |-> id,
                      existed |-> FALSE, childAllocs |-> 0, childTxs |-> 0]
  /\ UNCHANGED <<now, transactions, priceVars, chatVars>>

NotFound == [status |-> 404, body |-> [error |-> "Not Found"]]

\* a delete that leaves the rows of the portfolio behind
NoCascade(table, pid) == table

\* models.py 28-29: cascade='all, delete-orphan' deletes the rows that
\* reference the portfolio
Cascade(table, pid) == {row \in table : row.portfolio_id # pid}

\* app.py 194-200: DELETE /api/portfolios/<id>
DeletePortfolio(id) ==
  /\ IF id \in Ids(portfolios)
       THEN /\ portfolios' = {p \in portfolios : p.id # id}
            /\ allocations' = Cascade(allocations, id)
            /\ transactions' = Cascade(transactions, id)
            /\ dbResp' = [status |-> 200, body |-> [message |-> "Portfolio deleted"]]
       ELSE /\ dbResp' = NotFound
            /\ UNCHANGED <<portfolios, allocations, transactions>>
  /\ dbObs' = [op |-> "delete_portfolio", id |-> id,
               existed |-> id \in Ids(portfolios),
               childAllocs |-> Cardinality({a \in allocations : a.portfolio_id = id}),
               childTxs |-> Cardinality(TransactionsOf(transactions, id))]
  /\ UNCHANGED <<now, priceVars, chatVars>>

\* order_by(Transaction.date.desc())
SortedByDateDesc(order) ==
  \A i, j \in 1..Len(order) : i < j => order[i].date >= order[j].date

\* app.py 207-211: GET /api/portfolios/<id>/transactions; the JSON array of
\* the response is the field rows of the body
GetTransactions(pid) ==
  /\ \E order \in Orders(TransactionsOf(transactions, pid)) :
       /\ SortedByDateDesc(order)
       /\ dbResp' = [status |-> 200, body |-> [rows |-> order]]
  /\ dbObs' = [op |-> "get_transactions", id |-> pid,
               existed |-> pid \in Ids(portfolios), childAllocs |-> 0, childTxs |-> 0]
  /\ UNCHANGED <<now, portfolios, allocations, transactions, priceVars, chatVars>>

\* app.py 214-234: POST /api/portfolios/<id>/transactions with body r
CreateTransaction(pid, r) ==
  /\ NextId(transactions) <= MaxTx
  /\ IF pid \notin Ids(portfolios)
       THEN /\ dbResp' = NotFound
            /\ UNCHANGED transactions
     ELSE IF "asset_name" \notin DOMAIN TxRequests[r]
       THEN /\ dbResp' = [status |-> 500, body |-> [error |-> "IntegrityError"]]
            /\ UNCHANGED transactions
     ELSE LET row == NewTransaction(transactions, pid, TxRequests[r], now)
          IN  /\ transactions' = transactions \cup {row}
              /\ dbResp' = [status |-> 201, body |-> row]
  /\ dbObs' = [op |-> "create_transaction", id |-> pid,
               existed |-> pid \in Ids(portfolios), childAllocs |-> 0, childTxs |-> 0]
  /\ UNCHANGED <<now, portfolios, allocations, priceVars, chatVars>>

\* app.py 237-243: DELETE /api/transactions/<id>
DeleteTransaction(id) ==
  /\ IF id \in Ids(transactions)
       THEN /\ transactions' = {t \in transactions : t.id # id}
            /\ dbResp' = [status |-> 200, body |-> [message |-> "Transaction deleted"]]
       ELSE /\ dbResp' = NotFound
            /\ UNCHANGED transactions
  /\ dbObs' = [op |-> "delete_transaction", id |-> id,
               existed |-> id \in Ids(transactions), childAllocs |-> 0, childTxs |-> 0]
  /\ UNCHANGED <<now, portfolios, allocations, priceVars, chatVars>>

(***************************************************************************)
(* ANALYTICS                                                               *)
(***************************************************************************)
\* the accumulator after one more transaction, a sell reducing the total too
AccumulateSellReducesTotal(acc, t) ==
  LET bucket == Get(acc.assets, t.asset_name, [invested |-> 0, quantity |-> 0])
      updated ==
        IF t.type = "buy"
          THEN [invested |-> bucket.invested + t.amount,
                quantity |-> bucket.quantity + t.quantity]
        ELSE IF t.type = "sell"
          THEN [invested |-> bucket.invested - t.amount,
                quantity |-> bucket.quantity - t.quantity]
        ELSE bucket
  IN  [assets |-> (t.asset_name :> updated) @@ acc.assets,
       total_invested |-> IF t.type = "buy" THEN acc.total_invested + t.amount
                          ELSE IF t.type = "sell" THEN acc.total_invested - t.amount
                          ELSE acc.total_invested]

\* app.py 260-270: one turn of the loop over the transactions
Accumulate(acc, t) ==
  LET bucket == Get(acc.assets, t.asset_name, [invested |-> 0, quantity |-> 0])
      updated ==
        IF t.type = "buy"
          THEN [invested |-> bucket.invested + t.amount,
                quantity |-> bucket.quantity + t.quantity]
        ELSE IF t.type = "sell"
          THEN [invested |-> bucket.invested - t.amount,
                quantity |-> bucket.quantity - t.quantity]
        ELSE bucket
  IN  [assets |-> (t.asset_name :> updated) @@ acc.assets,
       total_invested |-> IF t.type = "buy" THEN acc.total_invested + t.amount
                          ELSE acc.total_invested]

\* app.py 257-270: the loop, over the first n transactions of the list
RECURSIVE Aggregate(_, _)
Aggregate(txs, n) ==
  IF n = 0 THEN [assets |-> EmptyDict, total_invested |-> 0]
  ELSE Accumulate(Aggregate(txs, n - 1), txs[n])

\* app.py 272-280: the analytics payload for the transactions as queried
AnalyticsBody(pid, name, txs) ==
  LET acc == Aggregate(txs, Len(txs))
  IN  [portfolio_id |-> pid,
       portfolio_name |-> name,
       total_invested |-> acc.total_invested,
       assets |-> acc.assets,
       transaction_count |-> Len(txs),
       first_investment |-> IF Len(txs) > 0 THEN txs[Len(txs)].date ELSE NoTime,
       last_investment |-> IF Len(txs) > 0 THEN txs[1].date ELSE NoTime]

\* app.py 250-280: GET /api/portfolios/<id>/analytics
GetPortfolioAnalytics(pid) ==
  /\ IF pid \in Ids(portfolios)
       THEN dbResp' = [status |-> 200,
                       body |-> AnalyticsBody(pid, DEFAULT_NAME,
                                  ScanOrder(TransactionsOf(transactions, pid)))]
       ELSE dbResp' = NotFound
  /\ dbObs' = [op |-> "analytics", id |-> pid,
               existed |-> pid \in Ids(portfolios), childAllocs |-> 0, childTxs |-> 0]
  /\ UNCHANGED <<now, portfolios, allocations, transactions, priceVars, chatVars>>

(***************************************************************************)
(* Initial state: app.py 288-291 (empty cache), empty tables.              *)
(***************************************************************************)
Init ==
  /\ now = 0
  /\ cache = [data |-> PyNone, timestamp |-> NoTime]
  /\ priceResp = [status |-> 0, body |-> PyNone]
  /\ priceObs = [seq |-> 0, fetched |-> 0, fresh |-> FALSE, hadData |-> FALSE,
                 outcome |-> "none", ostatus |-> 0, obody |-> 0]
  /\ threads = [r \in Threads |-> IdleThread]
  /\ slotWriter = [data |-> 0, timestamp |-> 0]
  /\ chatHistory = << >>
  /\ chatResp = [status |-> 0, body |-> PyNone]
  /\ chatObs = [seq |-> 0, op |-> "none", req |-> 0, key |-> TRUE, kind |-> "none",
                ustatus |-> 0, ubody |-> 0, commitOk |-> TRUE]
  /\ portfolios = {}
  /\ allocations = {}
  /\ transactions = {}
  /\ dbResp = [status |-> 0, body |-> PyNone]
  /\ dbObs = [op |-> "none", id |-> 0, existed |-> FALSE,
              childAllocs |-> 0, childTxs |-> 0]

PriceCall == \E o \in PriceOutcomes, d \in 0..MaxFetchDelay : GetLivePrices(o, d)

NextPrices == Tick \/ PriceCall

SpecPrices == Init /\ [][NextPrices]_vars

TestSlotStep == \E r \in Threads : TestSlot(r)
TestAgeStep == \E r \in Threads : TestAge(r)
ReturnCachedStep == \E r \in Threads : ReturnCached(r)
FetchStep == \E r \in Threads, o \in PriceOutcomes : Fetch(r, o)
StoreDataStep == \E r \in Threads : StoreData(r)
StoreTimestampStep == \E r \in Threads : StoreTimestamp(r)

NextThreaded ==
  \/ TestSlotStep
  \/ TestAgeStep
  \/ ReturnCachedStep
  \/ FetchStep
  \/ StoreDataStep
  \/ StoreTimestampStep
  \/ Elapse

SpecThreaded == Init /\ [][NextThreaded]_vars

ChatCall ==
  \E r \in 0..Len(ChatRequests), key \in BOOLEAN, up \in ChatOutcomes,
     commitOk \in BOOLEAN :
    ChatWithGemini(r, key, up, commitOk)

NextChat == ChatCall \/ ClearChatHistory

SpecChat == Init /\ [][NextChat]_vars

PortfolioIds == 1..(MaxPortfolios + 1)
TransactionIds == 1..(MaxTx + 1)

\* the store: portfolios with their allocations, and a ledger fed with the
\* request bodies StoreRequests
StoreRequests == {4, 6}

CreatePortfolioCall == \E n \in 0..MaxAllocs, valid \in BOOLEAN : CreatePortfolio(n, valid)
DeletePortfolioCall == \E id \in PortfolioIds : DeletePortfolio(id)
GetTransactionsCall == \E pid \in PortfolioIds : GetTransactions(pid)
CreateTransactionCall ==
  \E pid \in PortfolioIds, r \in StoreRequests : CreateTransaction(pid, r)
DeleteTransactionCall == \E id \in TransactionIds : DeleteTransaction(id)

NextDb ==
  \/ CreatePortfolioCall
  \/ DeletePortfolioCall
  \/ GetTransactionsCall
  \/ CreateTransactionCall
  \/ DeleteTransactionCall

SpecDb == Init /\ [][NextDb]_vars

\* the ledger and its analytics: at most MaxLedgers portfolios, without
\* allocations, and every request body of TxRequests
CreateBarePortfolioCall ==
  /\ Cardinality(portfolios) < MaxLedgers
  /\ CreatePortfolio(0, TRUE)
RecordTransactionCall ==
  \E pid \in PortfolioIds, r \in 1..Len(TxRequests) : CreateTransaction(pid, r)
AnalyticsCall == \E pid \in PortfolioIds : GetPortfolioAnalytics(pid)

NextAnalytics ==
  \/ CreateBarePortfolioCall
  \/ RecordTransactionCall
  \/ DeleteTransactionCall
  \/ AnalyticsCall

SpecAnalytics == Init /\ [][NextAnalytics]_vars

(***************************************************************************)
(* Properties of the price proxy.                                          *)
(***************************************************************************)
\* the step is a GET /api/prices request
IsPriceCall == priceObs'.seq # priceObs.seq

\* the cache slot is populated and its age is strictly below 30 seconds
Populated == cache.data # PyNone /\ cache.timestamp # NoTime
Below30 == Populated /\ now - cache.timestamp < 30

\* the upstream outcome recorded for the last request is a decoded 200 answer
FetchSucceeded(obs) ==
  obs.fetched = 1 /\ obs.outcome = "response" /\ obs.ostatus = 200 /\ obs.obody # 0

\* C1: a request that finds the cache populated and younger than 30 seconds
\* issues no upstream fetch, leaves the slot alone and answers 200 with exactly
\* the stored payload (cached = false); that payload is also what the previous
\* request answered, so calls within the window return identical content.
C1_TtlHitServesStoredPayload ==
  [][(IsPriceCall /\ Below30) =>
        /\ priceObs'.fetched = 0
        /\ cache' = cache
        /\ priceResp'.status = 200
        /\ priceResp'.body = cache.data
        /\ priceResp'.body.cached = FALSE
        /\ priceResp'.body = priceResp.body]_vars

C1_Witness ==
  /\ priceObs.fresh /\ priceObs.fetched = 0
  /\ priceResp.status = 200 /\ priceResp.body = cache.data
  /\ now - cache.timestamp = 29

\* C2: a request that finds the cache empty or 30 or more seconds old issues
\* exactly one upstream fetch whatever the outcome; when the fetch succeeds the
\* slot holds the new payload stamped with the current time, the response is
\* that payload with cached = false, and a request made at that same instant
\* issues no fetch.
C2_MissFetchesOnceAndStores ==
  [][IsPriceCall =>
        /\ ~Below30 =>
             /\ priceObs'.fetched = 1
             /\ FetchSucceeded(priceObs') =>
                  /\ cache'.timestamp = now'
                  /\ cache'.data = priceResp'.body
                  /\ priceResp'.status = 200
                  /\ priceResp'.body.cached = FALSE
                  /\ priceResp'.body.timestamp = now'
                  /\ priceResp'.body.bitcoin.price
                       = Get(Get(PriceBodies[priceObs'.obody], "bitcoin", EmptyDict), "usd", 0)
        /\ (FetchSucceeded(priceObs) /\ cache.timestamp = now) =>
             priceObs'.fetched = 0]_vars

C2_Witness ==
  /\ FetchSucceeded(priceObs) /\ priceObs.hadData
  /\ cache.timestamp = now /\ now >= CACHE_TTL
  /\ priceResp.body = cache.data

\* C3: when the upstream fetch times out, the response is 200 with the cached
\* payload marked cached = true if a payload was ever cached, and 504 if not;
\* any other failure that is not a 429 answers the same way, except that with
\* nothing cached it answers 500 carrying the failure detail.
C3_FailureFallsBackToStale ==
  [][(IsPriceCall /\ priceObs'.fetched = 1) =>
        /\ priceObs'.outcome = "timeout" =>
             IF cache.data # PyNone
               THEN /\ priceResp'.status = 200
                    /\ priceResp'.body = [cache.data EXCEPT !.cached = TRUE]
               ELSE /\ priceResp'.status = 504
                    /\ priceResp'.body = [error |-> "Timeout fetching prices"]
        /\ (\/ priceObs'.outcome = "connection_error"
            \/ priceObs'.outcome = "response" /\ priceObs'.ostatus \notin {200, 429}
            \/ priceObs'.outcome = "response" /\ priceObs'.ostatus = 200
                 /\ priceObs'.obody = 0) =>
             IF cache.data # PyNone
               THEN /\ priceResp'.status = 200
                    /\ priceResp'.body = [cache.data EXCEPT !.cached = TRUE]
               ELSE /\ priceResp'.status = 500
                    /\ priceResp'.body.error
                         \in {"ConnectionError", "HTTPError", "JSONDecodeError"}]_vars

C3_Witness ==
  /\ priceObs.fetched = 1 /\ priceObs.outcome = "timeout" /\ priceObs.hadData
  /\ priceResp.status = 200 /\ priceResp.body.cached = TRUE
  /\ now - cache.timestamp > CACHE_TTL

\* C4: when the upstream answers 429, the response is 200 with the cached
\* payload unmodified (cached = false) if a payload exists, and a 429
\* 'Rate limited' error if none was ever cached; never a payload marked
\* cached = true.
C4_RateLimitServesCacheUnmarked ==
  [][(IsPriceCall /\ priceObs'.fetched = 1
        /\ priceObs'.outcome = "response" /\ priceObs'.ostatus = 429) =>
        /\ IF cache.data # PyNone
             THEN /\ priceResp'.status = 200
                  /\ priceResp'.body = cache.data
             ELSE /\ priceResp'.status = 429
                  /\ priceResp'.body.error = "Rate limited"
        /\ priceResp'.body.cached = FALSE]_vars

C4_Witness ==
  /\ priceObs.fetched = 1 /\ priceObs.outcome = "response"
  /\ priceObs.ostatus = 429 /\ priceObs.hadData
  /\ priceResp.status = 200 /\ priceResp.body = cache.data

\* C12: only a successful upstream fetch changes the cache slot: a TTL hit, a
\* 429, a timeout and any other failure leave the stored payload and the
\* stored fetch time as they were, so the request after a failed fetch fetches
\* again; the slot is always empty or holds a payload whose cached flag is
\* false, and a populated slot never becomes empty again.
C12_OnlySuccessChangesSlot ==
  /\ [](cache.data = PyNone \/ cache.data.cached = FALSE)
  /\ [][/\ cache.data # PyNone => cache'.data # PyNone
        /\ (IsPriceCall /\ ~FetchSucceeded(priceObs')) => cache' = cache
        /\ cache' # cache => (IsPriceCall /\ FetchSucceeded(priceObs'))
        /\ (IsPriceCall /\ priceObs.fetched = 1 /\ ~FetchSucceeded(priceObs)) =>
             priceObs'.fetched = 1]_vars

C12_Witness ==
  /\ priceObs.fetched = 1 /\ priceObs.outcome = "connection_error"
  /\ cache.data # PyNone /\ cache.data.cached = FALSE
  /\ priceResp.body = [cache.data EXCEPT !.cached = TRUE]
  /\ now - cache.timestamp >= CACHE_TTL

(***************************************************************************)
(* Properties of the chat proxy.                                           *)
(***************************************************************************)
IsChatCall == chatObs'.seq # chatObs.seq /\ chatObs'.op = "chat"

RowsWithRole(role) == {i \in 1..Len(chatHistory) : chatHistory[i].role = role}

\* the rows a request appended to the table
NewRows == SubSeq(chatHistory', Len(chatHistory) + 1, Len(chatHistory'))

\* the request of the last POST /api/chat carried a non-empty message
HasMessage(obs) == obs.req # 0 /\ Get(ChatRequests[obs.req], "message", "") # ""

\* C5: every POST /api/chat either leaves ChatHistory as it was (400 for an
\* empty or missing message; 500 for a missing credential, an upstream status
\* other than 200 or an exception) or appends exactly two rows, a user row
\* then an assistant row carrying the same mode; hence the table always holds
\* as many user rows as assistant rows.
C5_ChatWritesZeroOrTwoRows ==
  /\ [](Cardinality(RowsWithRole("user")) = Cardinality(RowsWithRole("assistant")))
  /\ [][IsChatCall =>
          /\ \/ /\ chatHistory' = chatHistory
                /\ chatResp'.status \in {400, 500}
             \/ /\ Len(NewRows) = 2
                /\ SubSeq(chatHistory', 1, Len(chatHistory)) = chatHistory
                /\ NewRows[1].role = "user" /\ NewRows[2].role = "assistant"
                /\ NewRows[1].mode = NewRows[2].mode
                /\ NewRows[1].mode = Get(ChatRequests[chatObs'.req], "mode", "normie")
                /\ NewRows[1].content = ChatRequests[chatObs'.req].message
                /\ NewRows[2].content = chatResp'.body.response
                /\ chatResp'.status = 200
          /\ (chatObs'.req # 0 /\ ~HasMessage(chatObs')) =>
               (chatResp'.status = 400 /\ chatHistory' = chatHistory)
          /\ (HasMessage(chatObs')
                /\ (~chatObs'.key \/ chatObs'.kind # "response" \/ chatObs'.ustatus # 200
                      \/ ~chatObs'.commitOk)) =>
               (chatResp'.status = 500 /\ chatHistory' = chatHistory)]_vars

C5_Witness ==
  /\ chatObs.op = "chat" /\ chatResp.status = 200
  /\ Len(chatHistory) = 4
  /\ chatHistory[3].role = "user" /\ chatHistory[4].role = "assistant"
  /\ chatHistory[3].mode = "sovereign" /\ chatHistory[4].mode = "sovereign"
  /\ chatHistory[1].mode = "normie"

\* C10: for every upstream chat response with status 200 and a JSON body of
\* whatever shape, reply extraction does not raise: the request completes with
\* status 200, a reply that is a text part or the placeholder, and two
\* persisted rows.
C10_ExtractionNeverRaises ==
  [][(IsChatCall /\ HasMessage(chatObs') /\ chatObs'.key /\ chatObs'.commitOk
        /\ chatObs'.kind = "response" /\ chatObs'.ustatus = 200
        /\ chatObs'.ubody # 0) =>
        /\ chatResp'.status = 200
        /\ chatResp'.body.response \in {"r1", PLACEHOLDER}
        /\ Len(chatHistory') = Len(chatHistory) + 2]_vars

(***************************************************************************)
(* Properties of the store and of the analytics.                           *)
(***************************************************************************)
\* the step is a request to the store handled by op (every step of the store
\* specifications is a request)
IsDbCall(op) == dbObs'.op = op

\* the sum of a column over a set of rows
RECURSIVE SumOf(_, _)
SumOf(rows, column) ==
  IF rows = {} THEN 0
  ELSE LET row == CHOOSE row \in rows : TRUE
       IN  row[column] + SumOf(rows \ {row}, column)

Typed(rows, type) == {t \in rows : t.type = type}
OfAsset(rows, asset) == {t \in rows : t.asset_name = asset}

\* C6: in whatever order a portfolio's transactions were recorded, the
\* analytics report
\* for each asset invested = buys - sells over the amounts and quantity
\* likewise over the quantities, total_invested = the amounts of all buys only,
\* and transaction_count = the number of transactions of every type; a
\* 'contribution' changes no bucket value and not the total.
C6_AnalyticsTotals ==
  [][(IsDbCall("analytics") /\ dbResp'.status = 200) =>
       LET T == TransactionsOf(transactions, dbObs'.id)
           body == dbResp'.body
       IN  /\ DOMAIN body.assets = {t.asset_name : t \in T}
           /\ \A a \in DOMAIN body.assets :
                /\ body.assets[a].invested
                     = SumOf(Typed(OfAsset(T, a), "buy"), "amount")
                         - SumOf(Typed(OfAsset(T, a), "sell"), "amount")
                /\ body.assets[a].quantity
                     = SumOf(Typed(OfAsset(T, a), "buy"), "quantity")
                         - SumOf(Typed(OfAsset(T, a), "sell"), "quantity")
           /\ body.total_invested = SumOf(Typed(T, "buy"), "amount")
           /\ body.transaction_count = Cardinality(T)]_vars

C6_Witness ==
  /\ dbObs.op = "analytics" /\ dbResp.status = 200
  /\ dbResp.body.transaction_count = 3
  /\ dbResp.body.total_invested = 150
  /\ DOMAIN dbResp.body.assets = {"X"}
  /\ dbResp.body.assets["X"] = [invested |-> 120, quantity |-> 3]

\* C7: for a portfolio with at least one transaction, the analytics report
\* first_investment as the earliest date among its transactions and
\* last_investment as the latest, in whatever order they were created.
C7_FirstLastInvestment ==
  [][(IsDbCall("analytics") /\ dbResp'.status = 200
        /\ TransactionsOf(transactions, dbObs'.id) # {}) =>
       LET T == TransactionsOf(transactions, dbObs'.id)
       IN  /\ \A t \in T : dbResp'.body.first_investment <= t.date
           /\ \A t \in T : dbResp'.body.last_investment >= t.date]_vars

\* C8: GET and POST on /api/portfolios/{id}/transactions answer 404 when no
\* portfolio has that id, and the POST then writes no Transaction row.
C8_TransactionsOfMissingPortfolio ==
  [][((IsDbCall("get_transactions") \/ IsDbCall("create_transaction"))
        /\ dbObs'.id \notin Ids(portfolios)) =>
       /\ dbResp'.status = 404
       /\ transactions' = transactions]_vars

\* C9: deleting a portfolio removes every Allocation and every Transaction row
\* that references it and no row of another portfolio; in every reachable
\* state no Allocation or Transaction row references a portfolio id that does
\* not exist.
C9_CascadeDelete ==
  /\ [](\A row \in allocations \cup transactions : row.portfolio_id \in Ids(portfolios))
  /\ [][(IsDbCall("delete_portfolio") /\ dbObs'.id \in Ids(portfolios)) =>
          /\ dbResp'.status = 200
          /\ Ids(portfolios') = Ids(portfolios) \ {dbObs'.id}
          /\ allocations' = {a \in allocations : a.portfolio_id # dbObs'.id}
          /\ transactions' = {t \in transactions : t.portfolio_id # dbObs'.id}]_vars

C9_Witness ==
  /\ dbObs.op = "delete_portfolio" /\ dbObs.existed
  /\ dbObs.childAllocs >= 1 /\ dbObs.childTxs >= 1
  /\ dbObs.id \notin Ids(portfolios)
  /\ \E a \in allocations : a.portfolio_id \in Ids(portfolios)
  /\ \E t \in transactions : t.portfolio_id \in Ids(portfolios)

(***************************************************************************)
(* Properties of the price proxy under the threaded server.                *)
(***************************************************************************)
\* no request is in progress
AllCompleted == \A r \in Threads : threads[r].pc = "idle"

\* C11: when two requests both observe a miss, each fetches and each
\* overwrites the cache, and once both have completed the slot holds the
\* payload and the fetch time written by one and the same request, never the
\* payload of one with the fetch time of the other.
C11_LastWriterWinsWhole ==
  (AllCompleted /\ slotWriter.data # 0) => slotWriter.data = slotWriter.timestamp
====
